---- MODULE Spec2Model ----
(***************************************************************************)
(* napari.viewer.Viewer (src/napari/viewer.py): construction of a viewer   *)
(* against the process-wide Qt application, and the operations it          *)
(* delegates to its Window / QtViewer / console / thread pool.             *)
(*                                                                         *)
(* Viewer.__init__ is modelled statement by statement (pc is the position  *)
(* inside the constructor); every other method is one action.  Window,     *)
(* QtViewer, the console and the QThreadPool are collaborators that are    *)
(* not part of viewer.py: their effects are the ones spec.md gives them.   *)
(***************************************************************************)
EXTENDS Naturals, Integers, Sequences, FiniteSets, TLC

\* Bound of the model: the number of Viewer method calls a client makes
\* after construction (and so the number of tasks it can submit).
MaxCalls == 2

TaskIds == 1..MaxCalls

\* platform.system() values
Systems == {"Windows", "Linux", "Darwin"}

\* Viewer._napari_app_id: False (written "False"), the per-version default,
\* or a custom string.
AppIdDisabled == "False"
AppIdDefault == "napari.napari.viewer.VERSION"
AppIds == {AppIdDisabled, AppIdDefault, "custom.app.id"}

\* forms of the `variables` argument of update_console
VariableForms == {"dict", "str", "list"}

\* `path` argument of screenshot (None or a file name)
Paths == {"None", "shot.png"}

\* callables handed to update: one that returns, one that raises
Callables == {"succeeds", "fails"}

\* worker counts of the pool
PoolWorkerCounts == {1, 2, 8}

VARIABLES
    app,             \* QApplication.instance() is not None
    system,          \* platform.system()
    frozen,          \* getattr(sys, 'frozen', False)
    napari_app_id,   \* Viewer._napari_app_id
    showArg,         \* the constructor's `show` argument
    pc,              \* position inside Viewer.__init__
    error,           \* exception that left Viewer.__init__ ("None" if none)
    steps,           \* constructor steps executed so far, in order
    shellCalls,      \* SetCurrentProcessExplicitAppUserModelID invocations
    iconSet,         \* app.setWindowIcon was called
    viewModel,       \* object ViewerModel.__init__ initialised ("None"/"self")
    qtViewerModel,   \* viewer model the QtViewer was built around
    consoleAttached, \* qt_viewer.console is not None
    poolWorkers,     \* worker count of qt_viewer.pool
    window,          \* self.window: id of a Window instance, 0 = unset
    windows,         \* number of Window instances ever created
    visible,         \* ids of the Window instances that are visible
    showCalls,       \* number of Viewer.show() calls
    namespace,       \* what has been merged into the console namespace
    taskFn,          \* task id -> callable wrapped ("none" = not created)
    queue,           \* pool queue of task ids
    running,         \* task ids held by a pool worker
    runCount,        \* task id -> number of times its callable was run
    result,          \* task id -> "none" | "ok" | "failed"
    poolErrors,      \* task ids reported on the pool's error channel
    calls,           \* number of Viewer method calls made after construction
    lastCall,        \* the most recent method call: op, arguments, outcome
    delegated        \* collaborator calls that most recent call made

envVars == <<app, system, frozen, napari_app_id, showArg>>
ctorVars == <<pc, error, steps, shellCalls, iconSet, viewModel, qtViewerModel,
              consoleAttached, poolWorkers>>
winVars == <<window, windows, visible, showCalls>>
poolVars == <<taskFn, queue, running, runCount, result, poolErrors>>
callVars == <<calls, lastCall, delegated>>
vars == <<envVars, ctorVars, winVars, namespace, poolVars, callVars>>

NoCall == [op |-> "none", arg |-> "None", with_viewer |-> FALSE,
           ret |-> "None", raised |-> FALSE]

Init ==
    /\ app \in BOOLEAN
    /\ system \in Systems
    /\ frozen \in BOOLEAN
    /\ napari_app_id \in AppIds
    /\ showArg \in BOOLEAN
    /\ pc = "start"
    /\ error = "None"
    /\ steps = <<>>
    /\ shellCalls = <<>>
    /\ iconSet = FALSE
    /\ viewModel = "None"
    /\ qtViewerModel = "None"
    /\ consoleAttached = FALSE
    /\ poolWorkers = 0
    /\ window = 0
    /\ windows = 0
    /\ visible = {}
    /\ showCalls = 0
    /\ namespace = {}
    /\ taskFn = [t \in TaskIds |-> "none"]
    /\ queue = <<>>
    /\ running = {}
    /\ runCount = [t \in TaskIds |-> 0]
    /\ result = [t \in TaskIds |-> "none"]
    /\ poolErrors = {}
    /\ calls = 0
    /\ lastCall = NoCall
    /\ delegated = <<>>

----------------------------------------------------------------------------
\* Viewer.__init__

\* Python truthiness of _napari_app_id over AppIds: False is falsy, the
\* two (non-empty) strings are truthy.
Truthy(id) == id # AppIdDisabled

EventLoopGuardNoRaise ==
    /\ pc = "start"
    /\ pc' = "guarded"
    /\ steps' = Append(steps, "guard")
    /\ UNCHANGED <<envVars, error, shellCalls, iconSet, viewModel,
                   qtViewerModel, consoleAttached, poolWorkers, winVars,
                   namespace, poolVars, callVars>>

\* app = QApplication.instance(); if app is None: raise RuntimeError(message)
EventLoopGuard ==
    /\ pc = "start"
    /\ steps' = Append(steps, "guard")
    /\ IF ~app
       THEN pc' = "failed" /\ error' = "RuntimeError"
       ELSE pc' = "guarded" /\ error' = error
    /\ UNCHANGED <<envVars, shellCalls, iconSet, viewModel, qtViewerModel,
                   consoleAttached, poolWorkers, winVars, namespace,
                   poolVars, callVars>>

ShouldRegisterIgnoringFrozen ==
    system = "Windows" /\ Truthy(napari_app_id)

\* the condition of the `if` around the shell call
ShouldRegister ==
    system = "Windows" /\ ~frozen /\ Truthy(napari_app_id)

\* ctypes.windll.shell32.SetCurrentProcessExplicitAppUserModelID(id): the
\* call returns (its HRESULT, whatever it is, is dropped) or raises; the
\* constructor has no handler around it, so a raise leaves __init__.
RegisterPlatformIdentity ==
    /\ pc = "guarded"
    /\ IF ShouldRegister
       THEN \E outcome \in {"returned", "raised"} :
              /\ shellCalls' = Append(shellCalls,
                     [identity |-> napari_app_id, outcome |-> outcome])
              /\ steps' = Append(steps, "register")
              /\ IF outcome = "raised"
                 THEN pc' = "failed" /\ error' = "ShellCallError"
                 ELSE pc' = "registered" /\ error' = error
       ELSE /\ pc' = "registered"
            /\ UNCHANGED <<shellCalls, steps, error>>
    /\ UNCHANGED <<envVars, iconSet, viewModel, qtViewerModel,
                   consoleAttached, poolWorkers, winVars, namespace,
                   poolVars, callVars>>

\* app.setWindowIcon(QIcon(logopath))
SetWindowIcon ==
    /\ pc = "registered"
    /\ iconSet' = TRUE
    /\ steps' = Append(steps, "icon")
    /\ pc' = "icon"
    /\ UNCHANGED <<envVars, error, shellCalls, viewModel, qtViewerModel,
                   consoleAttached, poolWorkers, winVars, namespace,
                   poolVars, callVars>>

\* super().__init__(title=..., ndisplay=..., order=..., axis_labels=...)
ViewerModelInit ==
    /\ pc = "icon"
    /\ viewModel' = "self"
    /\ steps' = Append(steps, "model")
    /\ pc' = "model"
    /\ UNCHANGED <<envVars, error, shellCalls, iconSet, qtViewerModel,
                   consoleAttached, poolWorkers, winVars, namespace,
                   poolVars, callVars>>

\* QtViewer(viewer): built around `viewer`; it owns the console (None when
\* no interactive host) and the worker pool.
QtViewerNew(viewer) ==
    /\ qtViewerModel' = viewer
    /\ consoleAttached' \in BOOLEAN
    /\ poolWorkers' \in PoolWorkerCounts

\* qt_viewer = QtViewer(self)
CreateQtViewer ==
    /\ pc = "model"
    /\ QtViewerNew(viewModel)
    /\ steps' = Append(steps, "qt_viewer")
    /\ pc' = "qt_viewer"
    /\ UNCHANGED <<envVars, error, shellCalls, iconSet, viewModel, winVars,
                   namespace, poolVars, callVars>>

\* Window(qt_viewer, show=show): a new Window instance, displayed at once
\* when show is true.
WindowNew(show) ==
    /\ windows' = windows + 1
    /\ window' = windows + 1
    /\ visible' = IF show THEN visible \cup {windows + 1} ELSE visible
    /\ steps' = IF show THEN steps \o <<"window", "show">>
                        ELSE Append(steps, "window")

ShowPassedAlwaysTrue == TRUE

\* the value passed as Window's `show` keyword
ShowPassed == showArg

CreateWindowBeforeModel ==
    /\ pc \in {"icon", "qt_viewer"}
    /\ WindowNew(ShowPassed)
    /\ pc' = "done"
    /\ UNCHANGED <<envVars, error, shellCalls, iconSet, viewModel,
                   qtViewerModel, consoleAttached, poolWorkers, showCalls,
                   namespace, poolVars, callVars>>

\* self.window = Window(qt_viewer, show=show)
CreateWindow ==
    /\ pc = "qt_viewer"
    /\ WindowNew(ShowPassed)
    /\ pc' = "done"
    /\ UNCHANGED <<envVars, error, shellCalls, iconSet, viewModel,
                   qtViewerModel, consoleAttached, poolWorkers, showCalls,
                   namespace, poolVars, callVars>>

----------------------------------------------------------------------------
\* Collaborators reached through self.window

\* console.push(variables): merge into the console namespace
ConsolePush(variables) == namespace' = namespace \cup {variables}

\* Window.screenshot(path) / QtViewer.screenshot(path): the pixel buffer of
\* the whole window / of the canvas alone
WindowScreenshot(path) == "window_pixels"
CanvasScreenshot(path) == "canvas_pixels"

\* QThreadPool.start(task): queue the task
PoolStart(t) == queue' = Append(queue, t)

\* Window.show(): resize, show and raise this window
WindowShow == visible' = visible \cup {window}

\* Window.close()
WindowClose == visible' = visible \ {window}

Call(op, arg, wv, ret, raised) ==
    [op |-> op, arg |-> arg, with_viewer |-> wv, ret |-> ret,
     raised |-> raised]

Delegate(target, arg) == [target |-> target, arg |-> arg]

\* a client may call a method once the constructor has returned
CanCall == pc = "done" /\ calls < MaxCalls

----------------------------------------------------------------------------
\* Viewer methods

UpdateConsoleNoNoneCheck ==
    /\ CanCall
    /\ \E variables \in VariableForms :
         /\ calls' = calls + 1
         /\ delegated' = <<Delegate("console.push", variables)>>
         /\ IF ~consoleAttached
            THEN /\ lastCall' = Call("update_console", variables, FALSE,
                                     "None", TRUE)
                 /\ UNCHANGED namespace
            ELSE /\ lastCall' = Call("update_console", variables, FALSE,
                                     "None", FALSE)
                 /\ ConsolePush(variables)
    /\ UNCHANGED <<envVars, ctorVars, winVars, poolVars>>

\* update_console(variables)
UpdateConsole ==
    /\ CanCall
    /\ \E variables \in VariableForms :
         /\ calls' = calls + 1
         /\ lastCall' = Call("update_console", variables, FALSE, "None",
                             FALSE)
         /\ IF ~consoleAttached
            THEN /\ delegated' = <<>>
                 /\ UNCHANGED namespace
            ELSE /\ delegated' = <<Delegate("console.push", variables)>>
                 /\ ConsolePush(variables)
    /\ UNCHANGED <<envVars, ctorVars, winVars, poolVars>>

ScreenshotSwapped ==
    /\ CanCall
    /\ \E path \in Paths, with_viewer \in BOOLEAN :
         /\ calls' = calls + 1
         /\ IF with_viewer
            THEN /\ delegated' = <<Delegate("qt_viewer.screenshot", path)>>
                 /\ lastCall' = Call("screenshot", path, with_viewer,
                                     CanvasScreenshot(path), FALSE)
            ELSE /\ delegated' = <<Delegate("window.screenshot", path)>>
                 /\ lastCall' = Call("screenshot", path, with_viewer,
                                     WindowScreenshot(path), FALSE)
    /\ UNCHANGED <<envVars, ctorVars, winVars, namespace, poolVars>>

\* screenshot(path=None, *, with_viewer=False)
Screenshot ==
    /\ CanCall
    /\ \E path \in Paths, with_viewer \in BOOLEAN :
         /\ calls' = calls + 1
         /\ IF with_viewer
            THEN /\ delegated' = <<Delegate("window.screenshot", path)>>
                 /\ lastCall' = Call("screenshot", path, with_viewer,
                                     WindowScreenshot(path), FALSE)
            ELSE /\ delegated' = <<Delegate("qt_viewer.screenshot", path)>>
                 /\ lastCall' = Call("screenshot", path, with_viewer,
                                     CanvasScreenshot(path), FALSE)
    /\ UNCHANGED <<envVars, ctorVars, winVars, namespace, poolVars>>

\* id of the next task record
NextTask == 1 + Cardinality({t \in TaskIds : taskFn[t] # "none"})

UpdateStartsTwice ==
    /\ CanCall
    /\ \E func \in Callables :
         LET t == NextTask IN
         /\ calls' = calls + 1
         /\ taskFn' = [taskFn EXCEPT ![t] = func]
         /\ queue' = queue \o <<t, t>>
         /\ delegated' = <<Delegate("pool.start", func),
                           Delegate("pool.start", func)>>
         /\ lastCall' = Call("update", func, FALSE, "pool", FALSE)
    /\ UNCHANGED <<envVars, ctorVars, winVars, namespace, running, runCount,
                   result, poolErrors>>

UpdateRunsInline ==
    /\ CanCall
    /\ \E func \in Callables :
         LET t == NextTask IN
         /\ calls' = calls + 1
         /\ taskFn' = [taskFn EXCEPT ![t] = func]
         /\ runCount' = [runCount EXCEPT ![t] = @ + 1]
         /\ result' = [result EXCEPT
                         ![t] = IF func = "fails" THEN "failed" ELSE "ok"]
         /\ delegated' = <<>>
         /\ lastCall' = Call("update", func, FALSE, "pool", func = "fails")
    /\ UNCHANGED <<envVars, ctorVars, winVars, namespace, queue, running,
                   poolErrors>>

\* update(func, *args, **kwargs): t = QtUpdateUI(func, ...); pool.start(t);
\* return pool
Update ==
    /\ CanCall
    /\ \E func \in Callables :
         LET t == NextTask IN
         /\ calls' = calls + 1
         /\ taskFn' = [taskFn EXCEPT ![t] = func]
         /\ PoolStart(t)
         /\ delegated' = <<Delegate("pool.start", func)>>
         /\ lastCall' = Call("update", func, FALSE, "pool", FALSE)
    /\ UNCHANGED <<envVars, ctorVars, winVars, namespace, running, runCount,
                   result, poolErrors>>

ShowCreatesWindow ==
    /\ CanCall
    /\ calls' = calls + 1
    /\ showCalls' = showCalls + 1
    /\ windows' = windows + 1
    /\ window' = windows + 1
    /\ visible' = visible \cup {windows + 1}
    /\ delegated' = <<Delegate("window.show", "None")>>
    /\ lastCall' = Call("show", "None", FALSE, "None", FALSE)
    /\ UNCHANGED <<envVars, ctorVars, namespace, poolVars>>

\* show(): self.window.show()
Show ==
    /\ CanCall
    /\ calls' = calls + 1
    /\ showCalls' = showCalls + 1
    /\ WindowShow
    /\ delegated' = <<Delegate("window.show", "None")>>
    /\ lastCall' = Call("show", "None", FALSE, "None", FALSE)
    /\ UNCHANGED <<envVars, ctorVars, window, windows, namespace, poolVars>>

\* close(): self.window.close()
Close ==
    /\ CanCall
    /\ calls' = calls + 1
    /\ WindowClose
    /\ delegated' = <<Delegate("window.close", "None")>>
    /\ lastCall' = Call("close", "None", FALSE, "None", FALSE)
    /\ UNCHANGED <<envVars, ctorVars, window, windows, showCalls, namespace,
                   poolVars>>

----------------------------------------------------------------------------
\* The worker pool behind qt_viewer.pool

\* a free worker takes the task at the head of the queue
WorkerStart ==
    /\ queue # <<>>
    /\ Cardinality(running) < poolWorkers
    /\ running' = running \cup {Head(queue)}
    /\ queue' = Tail(queue)
    /\ UNCHANGED <<envVars, ctorVars, winVars, namespace, taskFn, runCount,
                   result, poolErrors, callVars>>

\* the worker runs the task's callable to its end; a failure is caught in
\* the worker and reported on the pool's error channel
WorkerRun(t) ==
    /\ t \in running
    /\ running' = running \ {t}
    /\ runCount' = [runCount EXCEPT ![t] = @ + 1]
    /\ IF taskFn[t] = "fails"
       THEN /\ result' = [result EXCEPT ![t] = "failed"]
            /\ poolErrors' = poolErrors \cup {t}
       ELSE /\ result' = [result EXCEPT ![t] = "ok"]
            /\ UNCHANGED poolErrors
    /\ UNCHANGED <<envVars, ctorVars, winVars, namespace, taskFn, queue,
                   callVars>>

----------------------------------------------------------------------------
Next ==
    \/ EventLoopGuard
    \/ RegisterPlatformIdentity
    \/ SetWindowIcon
    \/ ViewerModelInit
    \/ CreateQtViewer
    \/ CreateWindow
    \/ UpdateConsole
    \/ Screenshot
    \/ Update
    \/ Show
    \/ Close
    \/ WorkerStart
    \/ \E t \in TaskIds : WorkerRun(t)

Spec == Init /\ [][Next]_vars

\* the pool's workers keep taking queued tasks and every callable ends
FairSpec ==
    /\ Init
    /\ [][Next]_vars
    /\ WF_vars(WorkerStart)
    /\ \A t \in TaskIds : WF_vars(WorkerRun(t))

----------------------------------------------------------------------------
\* Properties

\* C1: a construction attempted while QApplication.instance() is None ends
\* in the RuntimeError of the guard, and nothing else has happened by then:
\* no shell call, no window icon, no ViewerModel, no QtViewer, no Window.
C1_NoLoopFailsBeforeAnything ==
    (~app /\ pc # "start") =>
        /\ pc = "failed"
        /\ error = "RuntimeError"
        /\ steps = <<"guard">>
        /\ shellCalls = <<>>
        /\ ~iconSet
        /\ viewModel = "None"
        /\ qtViewerModel = "None"
        /\ window = 0 /\ windows = 0 /\ visible = {}

C1_Witness == ~app /\ pc = "failed" /\ error = "RuntimeError"

StepOrder ==
    <<"guard", "register", "icon", "model", "qt_viewer", "window", "show">>

StepRank(s) == CHOOSE i \in 1..Len(StepOrder) : StepOrder[i] = s

\* C2: the constructor's steps happen in the order guard, registration,
\* ViewerModel, QtViewer/Window around that same model, show; none twice,
\* none before an earlier one; a finished construction ran all that apply.
C2_ConstructionOrder ==
    /\ \A i, j \in 1..Len(steps) :
          i < j => StepRank(steps[i]) < StepRank(steps[j])
    /\ window # 0 => (viewModel = "self" /\ qtViewerModel = viewModel)
    /\ pc = "done" =>
          steps = <<"guard">>
                  \o (IF Len(shellCalls) = 1 THEN <<"register">> ELSE <<>>)
                  \o <<"icon", "model", "qt_viewer", "window">>
                  \o (IF showArg THEN <<"show">> ELSE <<>>)

C2_Witness ==
    /\ pc = "done"
    /\ steps = StepOrder

\* C3: the shell call is made exactly when the platform is Windows, the
\* process is not frozen and the identity is not the disabled sentinel;
\* then once, with the configured identity; otherwise never.
C3_ShellCallExactlyWhen ==
    LET reached == app /\ pc \notin {"start", "guarded"}
        due == /\ system = "Windows"
               /\ frozen = FALSE
               /\ napari_app_id # AppIdDisabled
    IN  /\ Len(shellCalls) = (IF reached /\ due THEN 1 ELSE 0)
        /\ \A i \in 1..Len(shellCalls) :
              shellCalls[i].identity = napari_app_id

C3_Witness ==
    /\ pc = "done"
    /\ Len(shellCalls) = 1
    /\ shellCalls[1].identity = "custom.app.id"

\* C4: a raising shell call is not fatal to the construction.
C4_RegistrationFailureNotFatal ==
    (\E i \in 1..Len(shellCalls) : shellCalls[i].outcome = "raised")
        => pc # "failed"

\* C5: update_console without a console raises nothing and changes
\* nothing; with a console it makes exactly one push of `variables`.
C5_UpdateConsole ==
    [][ (calls' = calls + 1 /\ lastCall'.op = "update_console") =>
          /\ lastCall'.raised = FALSE
          /\ UNCHANGED <<envVars, ctorVars, winVars, poolVars>>
          /\ IF consoleAttached
             THEN /\ delegated' =
                        <<[target |-> "console.push", arg |-> lastCall'.arg]>>
                  /\ namespace' = namespace \cup {lastCall'.arg}
             ELSE /\ delegated' = <<>>
                  /\ UNCHANGED namespace ]_vars

C5_Witness ==
    /\ lastCall.op = "update_console"
    /\ consoleAttached = FALSE
    /\ calls = 2

Occurrences(q, t) == Cardinality({i \in 1..Len(q) : q[i] = t})

\* C6: every update call queues exactly one task record, and every task
\* submitted is run exactly once, whatever the workers' interleaving and
\* for 1, 2 and 8 workers.
C6_EveryTaskRunsOnce ==
    /\ [](\A t \in TaskIds :
            /\ runCount[t] <= 1
            /\ taskFn[t] # "none" =>
                 Occurrences(queue, t) + (IF t \in running THEN 1 ELSE 0)
                     + runCount[t] = 1)
    /\ [][ (calls' = calls + 1 /\ lastCall'.op = "update") =>
             /\ Len(queue') = Len(queue) + 1
             /\ Len(delegated') = 1
             /\ delegated'[1].target = "pool.start" ]_vars
    /\ \A t \in TaskIds :
          (taskFn[t] # "none") ~> (runCount[t] = 1 /\ result[t] # "none")

C6_Witness ==
    /\ poolWorkers = 2
    /\ \A t \in {1, 2} : runCount[t] = 1 /\ result[t] # "none"

\* C7: a failing task is reported on the pool's error channel, never
\* raises in the thread that called update, and a succeeding task
\* submitted after it still completes.
C7_FailureIsIsolated ==
    /\ [](\A t \in TaskIds :
            result[t] = "failed" => (t \in poolErrors /\ t \notin running))
    /\ [](lastCall.op = "update" => lastCall.raised = FALSE)
    /\ \A t \in TaskIds :
          (taskFn[t] = "succeeds" /\ \E u \in 1..(t - 1) : taskFn[u] = "fails")
              ~> (result[t] = "ok")

C7_Witness ==
    /\ result[1] = "failed"
    /\ 1 \in poolErrors
    /\ result[2] = "ok"

\* C8: show() leaves exactly one window visible, the one made by the
\* constructor, however often it is called; no other Window is created.
C8_ShowIdempotent ==
    /\ pc = "done" => (windows = 1 /\ window = 1)
    /\ Cardinality(visible) <= 1
    /\ lastCall.op = "show" => visible = {window}

C8_Witness ==
    /\ showCalls = 2
    /\ calls = 2
    /\ showArg

\* C9: show=True displays the window in the constructor; show=False leaves
\* it hidden until show() is called, whatever else is called meanwhile.
C9_ShownOnlyOnRequest ==
    /\ pc # "done" => visible = {}
    /\ (pc = "done" /\ showArg /\ calls = 0) => visible = {window}
    /\ (pc = "done" /\ ~showArg /\ showCalls = 0) => visible = {}

C9_Witness ==
    /\ pc = "done"
    /\ ~showArg
    /\ calls = 2
    /\ lastCall.op \in {"update_console", "screenshot", "update"}
    /\ visible = {}

\* C10: screenshot asks exactly one source, the window when with_viewer is
\* true and the canvas otherwise, passes it `path`, and returns its buffer.
C10_ScreenshotSource ==
    lastCall.op = "screenshot" =>
        IF lastCall.with_viewer
        THEN /\ delegated = <<[target |-> "window.screenshot",
                               arg |-> lastCall.arg]>>
             /\ lastCall.ret = "window_pixels"
        ELSE /\ delegated = <<[target |-> "qt_viewer.screenshot",
                               arg |-> lastCall.arg]>>
             /\ lastCall.ret = "canvas_pixels"

C10_Witness ==
    /\ lastCall.op = "screenshot"
    /\ lastCall.with_viewer
    /\ lastCall.arg = "shot.png"

====
